---------------------------- MODULE Spec2Model ----------------------------
(***************************************************************************)
(* A model of src/innervation_app.py: the InnervationApp session object,   *)
(* its event handlers, and the result log innervation_results.txt that it  *)
(* writes into the chosen folder.                                          *)
(*                                                                         *)
(* Conventions                                                             *)
(*  - A Python value that may be None is a sequence: <<>> is None and      *)
(*    <<v>> is the value v.                                                *)
(*  - A file name is the sequence of its character codes, so that          *)
(*    str.lower, str.endswith and the ordering used by list.sort are       *)
(*    computed and not assumed.                                            *)
(*  - Image coordinates that the code holds as floats are held exactly, as *)
(*    integers counting 1/FP of a pixel.  Every division the handlers make *)
(*    is by display_scale, whose denominator divides FP, so the values are *)
(*    exact rationals; float rounding error (about 1e-13) is not modelled. *)
(*  - PIL and Tk are modelled by what the calls made here do:              *)
(*    Image.crop rounds each box coordinate with Python's round (half to   *)
(*    even) and raises ValueError when right < left or lower < upper;      *)
(*    a Tk callback that raises is reported and the main loop continues.   *)
(***************************************************************************)
EXTENDS Integers, Sequences, FiniteSets, TLC

VARIABLES
    disk,                     \* folder -> None | <<rows of innervation_results.txt>>
    files,                    \* self.files
    folder_path,              \* self.folder_path
    current_index,            \* self.current_index
    original_raw_image,       \* self.original_raw_image
    adj_contrast,             \* self.adj_contrast   (tenths)
    adj_brightness,           \* self.adj_brightness (tenths)
    adj_noise,                \* self.adj_noise      (tenths)
    show_red_overlay,         \* self.show_red_overlay
    algo_mode,                \* self.algo_mode
    ent_cutoff,               \* text of self.ent_cutoff
    crop_mode,                \* self.crop_mode
    view_crop_raw,            \* self.view_crop_raw: the rectangle of the image it holds
    view_offset,              \* self.view_offset, in 1/FP pixels
    display_scale,            \* self.display_scale, <<numerator, denominator>>
    canvas_offset,            \* self.canvas_offset_x, self.canvas_offset_y
    zoom_start,               \* self.zoom_start
    mode,                     \* self.mode
    drawing_points,           \* self.drawing_points
    current_calculated_value, \* self.current_calculated_value
    btn_calc,                 \* state of btn_calc
    btn_save,                 \* state of btn_save
    btn_tools,                \* state of btn_reset, btn_zoom, btn_zoom_out, btn_adj, btn_draw, btn_discard
    b1_down,                  \* mouse button 1 is held on the canvas
    dialog,                   \* the messagebox the last handler showed
    raised,                   \* the last handler ended in an exception
    zoom_steps,               \* zoom operations since the view was last reset
    zoom_in_from,             \* history: the view the last apply_zoom started from, while its crop is shown
    closed_shape,             \* history: the point list finish_polygon closed and drew
    close_rejected,           \* history: finish_polygon refused the point list as it stands
    prior_mode,               \* history: while a zoom rectangle is selected, the mode that was active before
    call                      \* a direct call of a function of the module: None, or its name, argument and return value

vars == <<disk, files, folder_path, current_index, original_raw_image,
          adj_contrast, adj_brightness, adj_noise, show_red_overlay, algo_mode,
          ent_cutoff, crop_mode, view_crop_raw, view_offset, display_scale,
          canvas_offset, zoom_start, mode, drawing_points,
          current_calculated_value, btn_calc, btn_save, btn_tools, b1_down,
          dialog, raised, zoom_steps, zoom_in_from, closed_shape, close_rejected,
          prior_mode, call>>

None == <<>>
Some(v) == <<v>>
Val(o) == o[1]

-----------------------------------------------------------------------------
(* Bounds of the model *)

\* zoom operations (in or out) explored between two resets of the view
MaxZoomSteps == 3
\* points of one ROI
MaxPoints == 3
\* data rows in one result log
MaxRows == 1
\* how far discard_and_next is followed past the end of the file list
MaxOverrun == 1

-----------------------------------------------------------------------------
(* Arithmetic *)

Max(a, b) == IF a >= b THEN a ELSE b
Min(a, b) == IF a <= b THEN a ELSE b
Abs(a) == IF a >= 0 THEN a ELSE -a

RECURSIVE GCD(_, _)
GCD(a, b) == IF b = 0 THEN a ELSE GCD(b, a % b)

\* the canvas size render_view reads (winfo_width, winfo_height)
CanvasW == 800
CanvasH == 600

\* units per pixel of the exact coordinates: the least common multiple of the
\* canvas sides, which are the only denominators display_scale can have
FP == (CanvasW * CanvasH) \div GCD(CanvasW, CanvasH)

\* int(x) of a float x: truncation toward zero
PyInt(u) == IF u >= 0 THEN u \div FP ELSE -((-u) \div FP)

\* round(x) of a float x: to the nearest integer, a tie to the even one
PyRound(u) ==
    LET f == u \div FP
        r == u - f * FP
    IN  IF 2 * r < FP THEN f
        ELSE IF 2 * r > FP THEN f + 1
        ELSE IF f % 2 = 0 THEN f ELSE f + 1

\* a // b of two ints, b > 0
FloorDiv(a, b) == a \div b

-----------------------------------------------------------------------------
(* File names and the folders on disk *)

name_a == <<97, 46, 116, 105, 102>>      \* "a.tif"
name_b == <<98, 46, 116, 105, 102>>      \* "b.tif"
name_c == <<99, 46, 80, 78, 71>>         \* "c.PNG"
name_n == <<110, 46, 116, 120, 116>>     \* "n.txt"

Folders == {"F1", "F2"}

\* os.listdir(path), in the order the file system happens to return
listdir(path) ==
    IF path = "F1" THEN <<name_b, name_n, name_a, name_c>> ELSE <<name_n>>

\* whether Image.open(filepath).convert("I") succeeds
Readable(path, name) == ~(path = "F1" /\ name = name_b)

\* the size of the image in a file
ImageSize(path, name) ==
    IF name = name_c THEN [w |-> 400, h |-> 300] ELSE [w |-> 1000, h |-> 1000]

\* str.lower on one character
LowerChar(c) == IF c >= 65 /\ c <= 90 THEN c + 32 ELSE c
lower(s) == [i \in 1..Len(s) |-> LowerChar(s[i])]

endswith(s, suffix) ==
    /\ Len(suffix) <= Len(s)
    /\ SubSeq(s, Len(s) - Len(suffix) + 1, Len(s)) = suffix

ImageExtensions ==
    { <<46, 116, 105, 102>>,           \* ".tif"
      <<46, 116, 105, 102, 102>>,      \* ".tiff"
      <<46, 112, 110, 103>>,           \* ".png"
      <<46, 106, 112, 103>> }          \* ".jpg"

IsImageName(f) == \E e \in ImageExtensions : endswith(lower(f), e)

\* s < t for Python strings: lexicographic by character code
RECURSIVE StrLess(_, _)
StrLess(s, t) ==
    IF t = <<>> THEN FALSE
    ELSE IF s = <<>> THEN TRUE
    ELSE IF Head(s) # Head(t) THEN Head(s) < Head(t)
    ELSE StrLess(Tail(s), Tail(t))

\* insert x into the sorted list l
RECURSIVE Insert(_, _)
Insert(x, l) ==
    IF l = <<>> THEN <<x>>
    ELSE IF StrLess(x, Head(l)) THEN <<x>> \o l
    ELSE <<Head(l)>> \o Insert(x, Tail(l))

\* a file list left in the order of os.listdir
unsorted(l) == l

\* list.sort()
RECURSIVE sort(_)
sort(l) == IF l = <<>> THEN <<>> ELSE Insert(Head(l), sort(Tail(l)))

\* the file list load_folder builds
FolderListing == [p \in Folders |-> sort(SelectSeq(listdir(p), IsImageName))]

FolderFiles(path) == FolderListing[path]

-----------------------------------------------------------------------------
(* The result log *)

HeaderLine == [kind |-> "header", file |-> <<>>, index |-> 0]
RuleLine   == [kind |-> "rule", file |-> <<>>, index |-> 0]
DataRow(f, v) == [kind |-> "row", file |-> f, index |-> v]
\* what a write cut short by the end of the process leaves of a data row
TornRow(f) == [kind |-> "torn", file |-> f, index |-> 0]

\* open(res_path, "w") followed by the write of the header and the rule
WriteHeader(d, path) == [d EXCEPT ![path] = Some(<<HeaderLine, RuleLine>>)]

\* open(path, "a"): creates the file when it is missing, keeps what it holds
OpenAppend(d, path) == IF d[path] = None THEN [d EXCEPT ![path] = Some(<<>>)] ELSE d

AppendRow(d, path, row) ==
    [d EXCEPT ![path] = Some(Val(OpenAppend(d, path)[path]) \o <<row>>)]

Rows(path) == IF disk[path] = None THEN <<>> ELSE Val(disk[path])
DataRows(path) == SelectSeq(Rows(path), LAMBDA r : r.kind \in {"row", "torn"})

\* load_folder's write of the header: open(res_path, "w") truncates the log and
\* writes the two lines whatever the log holds
HeaderAlways(d, path) == WriteHeader(d, path)

\* load_folder's write of the header in append mode: the log keeps its rows and
\* gains the two lines again
HeaderAppended(d, path) ==
    [d EXCEPT ![path] = Some(Val(OpenAppend(d, path)[path]) \o <<HeaderLine, RuleLine>>)]

\* load_folder: the header is written if os.path.exists(res_path) is false
EnsureHeader(d, path) == IF d[path] = None THEN WriteHeader(d, path) ELSE d

IsPrefix(s, t) == Len(s) <= Len(t) /\ SubSeq(t, 1, Len(s)) = s


-----------------------------------------------------------------------------
(* Pixel values.  A sample of pixels is held as its histogram: a function   *)
(* from the values that occur (0..255) to how often they occur.  A float is *)
(* held as an exact fraction <<numerator, denominator>> in lowest terms.    *)

\* the fraction n / d, d # 0, in lowest terms with a positive denominator
Frac(n, d) ==
    LET g == GCD(Abs(n), Abs(d))
        sg == IF d < 0 THEN -1 ELSE 1
    IN  <<sg * (n \div g), sg * (d \div g)>>

FAdd(a, b) == Frac(a[1] * b[2] + b[1] * a[2], a[2] * b[2])
FSub(a, b) == Frac(a[1] * b[2] - b[1] * a[2], a[2] * b[2])
FMul(a, b) ==
    LET g1 == GCD(Abs(a[1]), b[2])
        g2 == GCD(Abs(b[1]), a[2])
    IN  Frac((a[1] \div g1) * (b[1] \div g2), (a[2] \div g2) * (b[2] \div g1))
FDiv(a, b) == FMul(a, Frac(b[2], b[1]))

\* a < b, compared by whole parts and then by the inverses of the fractional
\* parts, so that no product is formed
RECURSIVE FLess(_, _)
FLess(a, b) ==
    LET qa == a[1] \div a[2]
        qb == b[1] \div b[2]
        ra == a[1] % a[2]
        rb == b[1] % b[2]
    IN  IF qa # qb THEN qa < qb
        ELSE IF rb = 0 THEN FALSE
        ELSE IF ra = 0 THEN TRUE
        ELSE FLess(<<b[2], rb>>, <<a[2], ra>>)

\* the sum of f over the finite set S
RECURSIVE SumOver(_, _)
SumOver(f, S) ==
    IF S = {} THEN 0
    ELSE LET v == CHOOSE x \in S : TRUE
         IN  f[v] + SumOver(f, S \ {v})

\* pixels.size
Size(h) == SumOver(h, DOMAIN h)

\* the 256 bins of np.histogram(pixels, bins=256, range=(0, 256))
Bins == 0..255
hist(h, b) == IF b \in DOMAIN h THEN h[b] ELSE 0

\* np.cumsum(hist_norm)[t]: the fractions being exact, the running sum over
\* the bins up to t is the sum over the values up to t that occur
weight_bg(h, t) == Frac(SumOver(h, {v \in DOMAIN h : v <= t}), Size(h))

\* np.cumsum(hist_norm * np.arange(256))[t]
mean_bg(h, t) ==
    Frac(SumOver([v \in DOMAIN h |-> h[v] * v], {v \in DOMAIN h : v <= t}), Size(h))

\* valid_mask[t]
valid_mask(h, t) == FLess(<<0, 1>>, weight_bg(h, t)) /\ FLess(weight_bg(h, t), <<1, 1>>)

\* between_var[t]: zero outside valid_mask
between_var(h, t) ==
    IF ~valid_mask(h, t) THEN <<0, 1>>
    ELSE LET w == weight_bg(h, t)
             global_mean == mean_bg(h, 255)
             mean_fg == FDiv(FSub(global_mean, mean_bg(h, t)), FSub(<<1, 1>>, w))
             mean_bg_safe == FDiv(mean_bg(h, t), w)
             d == FSub(mean_bg_safe, mean_fg)
         IN  FMul(FMul(w, FSub(<<1, 1>>, w)), FMul(d, d))

\* an argmax that keeps the last of several largest entries
argmax_last(a) ==
    CHOOSE t \in DOMAIN a :
        /\ \A s \in DOMAIN a : ~FLess(a[t], a[s])
        /\ \A s \in DOMAIN a : s > t => FLess(a[s], a[t])

\* np.argmax: the first of the largest entries
argmax(a) ==
    CHOOSE t \in DOMAIN a :
        /\ \A s \in DOMAIN a : ~FLess(a[t], a[s])
        /\ \A s \in DOMAIN a : s < t => FLess(a[s], a[t])

\* calculate_otsu_threshold(image_array), image_array having the histogram h
calculate_otsu_threshold(h) ==
    IF Size(h) = 0 THEN 0
    ELSE argmax([t \in Bins |-> between_var(h, t)])

\* the text of the cutoff entry, as character codes
text_2500 == <<50, 53, 48, 48>>
text_128 == <<49, 50, 56>>
text_abc == <<97, 98, 99>>

\* the number a string of digits writes, most significant digit first
RECURSIVE DigitsValue(_)
DigitsValue(t) ==
    IF t = <<>> THEN 0
    ELSE DigitsValue(SubSeq(t, 1, Len(t) - 1)) * 10 + (t[Len(t)] - 48)

\* float(text): the value of a string of digits; None stands for the
\* ValueError raised on the other texts used here (empty, or with a letter)
float(t) ==
    IF t # <<>> /\ \A i \in 1..Len(t) : t[i] \in 48..57
    THEN Some(DigitsValue(t))
    ELSE None

-----------------------------------------------------------------------------
(* Inputs the user and the image files supply *)

\* samples of ROI pixels: one background pixel and two of tissue; 50 pixels
\* of 0 and 50 of 255; background only; no pixel
sample_mixed == (0 :> 1) @@ (100 :> 1) @@ (200 :> 1)
sample_half_zero == (0 :> 50) @@ (255 :> 50)
sample_all_zero == (0 :> 4)
sample_empty == << >>

\* A session is explored for a given supply of inputs u:
\*   u.folders  folders picked in the Load Folder dialog
\*   u.pts      canvas points the mouse events carry
\*   u.adj      slider settings the adjustment dialog reports:
\*              <<contrast, brightness, noise>>, in tenths
\*   u.algos    entries picked in the Threshold Algo combobox
\*   u.cutoffs  texts typed into the cutoff entry
\*   u.crops    entries picked in the Crop Mode combobox
\*   u.samples  what the pixels selected by the mask of a non-empty ROI crop
\*              can be, after the filters: their histograms
\*   u.maxpts   the longest point list the user draws

\* a batch session: every handler, with the drawing and the settings kept to
\* one point and the values the widgets start with
BatchInputs ==
    [folders |-> Folders,
     pts     |-> { <<200, 100>> },
     adj     |-> { <<10, 10, 0>> },
     algos   |-> { "1-0 Cut off" },
     cutoffs |-> { text_2500 },
     crops   |-> { "Polygon" },
     samples |-> { sample_mixed },
     maxpts  |-> MaxPoints]

-----------------------------------------------------------------------------
(* __init__ *)

InitApp ==
    /\ disk = [p \in Folders |-> None]
    /\ files = <<>>
    /\ folder_path = ""
    /\ current_index = 0
    /\ original_raw_image = None
    /\ adj_contrast = 10
    /\ adj_brightness = 10
    /\ adj_noise = 0
    /\ show_red_overlay = FALSE
    /\ algo_mode = "1-0 Cut off"
    /\ ent_cutoff = text_2500
    /\ crop_mode = "Polygon"
    /\ view_crop_raw = None
    /\ view_offset = <<0, 0>>
    /\ display_scale = <<1, 1>>
    /\ canvas_offset = None
    /\ zoom_start = None
    /\ mode = "VIEW"
    /\ drawing_points = <<>>
    /\ current_calculated_value = None
    /\ btn_calc = "disabled"
    /\ btn_save = "disabled"
    /\ btn_tools = "disabled"
    /\ b1_down = FALSE
    /\ dialog = "none"
    /\ raised = FALSE
    /\ zoom_steps = 0
    /\ zoom_in_from = None
    /\ closed_shape = None
    /\ close_rejected = FALSE
    /\ prior_mode = None

\* the application as constructed, no function being called directly
Init == InitApp /\ call = None

\* the variables that only widgets and the mouse change
settings == <<adj_contrast, adj_brightness, adj_noise, show_red_overlay,
              algo_mode, ent_cutoff, crop_mode>>
batch == <<disk, files, folder_path, current_index>>
image == <<original_raw_image, view_crop_raw, view_offset, zoom_steps, zoom_in_from>>
buttons == <<btn_calc, btn_save, btn_tools>>

\* a handler that returned normally and showed no dialog
Quiet == dialog' = "none" /\ raised' = FALSE

\* The history variables, kept by every handler once it has set mode' and
\* drawing_points'.  ev is "closed" when finish_polygon drew the closing edge
\* and the polygon, "rejected" when it returned on a list of fewer than three
\* points in draw mode, "settings" when a widget of the adjustment dialog or of
\* the threshold configuration was changed, "other" for every other handler.
\* closed_shape is the shape closed for the image shown: it ends when a
\* handler other than those of the settings empties the point list.
Track(ev) ==
    /\ closed_shape' = IF ev = "closed" THEN Some(drawing_points)
                       ELSE IF ev = "settings" THEN closed_shape
                       ELSE IF drawing_points' = <<>> THEN None
                       ELSE closed_shape
    /\ close_rejected' = IF ev = "rejected" THEN TRUE
                         ELSE IF ev = "closed" THEN FALSE
                         ELSE /\ close_rejected
                              /\ drawing_points' = drawing_points
                              /\ mode' = mode
    /\ prior_mode' = IF mode' # "ZOOM_SELECT" THEN None
                     ELSE IF mode # "ZOOM_SELECT" THEN Some(mode)
                     ELSE prior_mode

-----------------------------------------------------------------------------
(* render_view *)

\* scale = min(cw/iw, ch/ih)
RenderScale(crop) ==
    IF CanvasW * crop.h <= CanvasH * crop.w
    THEN <<CanvasW, crop.w>> ELSE <<CanvasH, crop.h>>

\* new_size = (int(iw * scale), int(ih * scale))
NewSize(crop) ==
    LET s == RenderScale(crop)
    IN  <<(crop.w * s[1]) \div s[2], (crop.h * s[1]) \div s[2]>>

\* canvas_offset_x, canvas_offset_y
CanvasOffset(crop) ==
    <<FloorDiv(CanvasW - NewSize(crop)[1], 2), FloorDiv(CanvasH - NewSize(crop)[2], 2)>>

\* a render_view that leaves the point list as it is
RenderViewKeepingPoints(crop) ==
    IF crop = None
    THEN UNCHANGED <<drawing_points, display_scale, canvas_offset>>
    ELSE /\ UNCHANGED drawing_points
         /\ display_scale' = RenderScale(Val(crop))
         /\ canvas_offset' = Some(CanvasOffset(Val(crop)))

\* render_view() with self.view_crop_raw = crop (None: it returns at once)
RenderView(crop) ==
    IF crop = None
    THEN UNCHANGED <<drawing_points, display_scale, canvas_offset>>
    ELSE /\ drawing_points' = <<>>
         /\ display_scale' = RenderScale(Val(crop))
         /\ canvas_offset' = Some(CanvasOffset(Val(crop)))

-----------------------------------------------------------------------------
(* load_image_from_disk, reset_current_view *)

\* the pixels arr holds, in reading order, and the k-th smallest of them, k
\* counted from 0
Below(arr, v) == Cardinality({i \in 1..Len(arr) : arr[i] < v})
UpTo(arr, v) == Cardinality({i \in 1..Len(arr) : arr[i] <= v})
Sorted(arr, k) ==
    CHOOSE v \in {arr[i] : i \in 1..Len(arr)} : Below(arr, v) <= k /\ k < UpTo(arr, v)

\* np.percentile(arr, q): linear interpolation between the two pixels next to
\* the position q / 100 * (n - 1) of the sorted pixels
percentile(arr, q) ==
    LET n  == Len(arr)
        lo == (q * (n - 1)) \div 100
        hi == Min(lo + 1, n - 1)
        part == q * (n - 1) - 100 * lo
    IN  Frac(100 * Sorted(arr, lo) + part * (Sorted(arr, hi) - Sorted(arr, lo)), 100)

\* range_val = p98 - p2 if (p98 - p2) != 0 else 1
range_val(p2, p98) == IF FSub(p98, p2) # <<0, 1>> THEN FSub(p98, p2) ELSE <<1, 1>>

\* values left as they are, whatever the limits
no_clip(x, lo, hi) == x

\* np.clip(x, lo, hi)
clip(x, lo, hi) ==
    IF FLess(x, <<lo, 1>>) THEN <<lo, 1>>
    ELSE IF FLess(<<hi, 1>>, x) THEN <<hi, 1>>
    ELSE x

\* x.astype(np.uint8) of a float x: the fraction is dropped, the integer kept
\* modulo 256
astype_uint8(x) ==
    (IF x[1] >= 0 THEN x[1] \div x[2] ELSE -((-x[1]) \div x[2])) % 256

\* what one pixel v becomes: np.clip((v - p2) / range_val * 255, 0, 255) as uint8
calibrated(v, p2, p98) ==
    astype_uint8(clip(FMul(FDiv(FSub(<<v, 1>>, p2), range_val(p2, p98)), <<255, 1>>),
                      0, 255))

\* arr_norm, the pixels of original_raw_image
arr_norm(arr) ==
    [i \in 1..Len(arr) |->
        calibrated(arr[i], percentile(arr, 2), percentile(arr, 98))]

\* pixels read from the files, a few standing for all: a.tif has background,
\* tissue and one hot pixel, c.PNG a single value
SourcePixels(name) == IF name = name_c THEN <<7, 7, 7>> ELSE <<0, 300, 70000>>
CalibratedPixels == [name \in {name_a, name_c} |-> arr_norm(SourcePixels(name))]

\* the calibrated image of a file
Calibrated(path, name) ==
    [path |-> path, name |-> name,
     w |-> ImageSize(path, name).w, h |-> ImageSize(path, name).h,
     pixels |-> CalibratedPixels[name]]

FullCrop(img) == [x |-> 0, y |-> 0, w |-> img.w, h |-> img.h]

\* load_image_from_disk() with folder_path = path, files = fl, current_index = ci
LoadImageFromDisk(path, fl, ci) ==
    IF ci >= Len(fl)
    THEN /\ dialog' = "Done"
         /\ raised' = FALSE
         /\ UNCHANGED <<current_calculated_value, mode, image, drawing_points,
                        display_scale, canvas_offset, buttons>>
    ELSE IF ~Readable(path, fl[ci + 1])
    THEN \* Image.open raises after the value and the mode were reset
         /\ current_calculated_value' = None
         /\ mode' = "VIEW"
         /\ dialog' = "none"
         /\ raised' = TRUE
         /\ UNCHANGED <<image, drawing_points, display_scale, canvas_offset, buttons>>
    ELSE /\ current_calculated_value' = None
         /\ mode' = "VIEW"
         /\ original_raw_image' = Some(Calibrated(path, fl[ci + 1]))
         /\ view_offset' = <<0, 0>>
         /\ view_crop_raw' = Some(FullCrop(Calibrated(path, fl[ci + 1])))
         /\ zoom_steps' = 0
         /\ zoom_in_from' = None
         /\ RenderView(Some(FullCrop(Calibrated(path, fl[ci + 1]))))
         /\ btn_calc' = "disabled"
         /\ btn_save' = "disabled"
         /\ btn_tools' = "normal"
         /\ Quiet

\* reset_current_view, the Reset View button
ResetCurrentView ==
    /\ btn_tools = "normal" /\ ~b1_down
    /\ view_offset' = <<0, 0>>
    /\ view_crop_raw' = Some(FullCrop(Val(original_raw_image)))
    /\ zoom_steps' = 0
    /\ zoom_in_from' = None
    /\ RenderView(Some(FullCrop(Val(original_raw_image))))
    /\ Quiet
    /\ UNCHANGED <<batch, settings, original_raw_image, zoom_start, mode,
                   current_calculated_value, buttons, b1_down>>
    /\ Track("other")
    /\ UNCHANGED call

-----------------------------------------------------------------------------
(* load_folder *)

\* load_folder() when the dialog returns path ("": the user cancelled it)
LoadFolderOf(path) ==
    /\ ~b1_down
    /\ IF path = ""
       THEN Quiet /\ UNCHANGED <<batch, settings, image, display_scale,
                      canvas_offset, zoom_start, mode, drawing_points,
                      current_calculated_value, buttons, b1_down>>
       ELSE /\ folder_path' = path
            /\ files' = FolderFiles(path)
            /\ IF FolderFiles(path) = <<>>
               THEN Quiet /\ UNCHANGED <<disk, current_index, image,
                              display_scale, canvas_offset, mode, drawing_points,
                              current_calculated_value, buttons>>
               ELSE /\ disk' = EnsureHeader(disk, path)
                    /\ current_index' = 0
                    /\ LoadImageFromDisk(path, FolderFiles(path), 0)
            /\ UNCHANGED <<settings, zoom_start, b1_down>>
    /\ Track("other")
    /\ UNCHANGED call

\* the user picks a folder in the dialog, or cancels it
LoadFolder(u) == \E path \in u.folders \cup {""} : LoadFolderOf(path)

-----------------------------------------------------------------------------
(* save_and_next, discard_and_next *)

\* the float 100 * (count_above / size) as a fraction in lowest terms
Percent(above, size) ==
    LET g == GCD(100 * above, size)
    IN  <<(100 * above) \div g, size \div g>>

\* f"{value:.6f}", read as the number of millionths it shows
Format6(v) ==
    LET q == v[1] \div v[2]
        r == v[1] % v[2]
        m == (r * 1000000) \div v[2]
        rest == (r * 1000000) % v[2]
    IN  q * 1000000 + m + (IF 2 * rest > v[2] \/ (2 * rest = v[2] /\ m % 2 = 1) THEN 1 ELSE 0)

\* an index that starts again at the first file after the last one
NextIndexWrapping(i) == IF i + 1 >= Len(files) THEN 0 ELSE i + 1

\* self.current_index += 1
NextIndex(i) == i + 1

SaveAndNext ==
    /\ btn_save = "normal" /\ ~b1_down
    /\ IF current_calculated_value = None
       THEN Quiet /\ UNCHANGED <<batch, image, display_scale, canvas_offset, mode,
                      drawing_points, current_calculated_value, buttons>>
       ELSE IF current_index >= Len(files)
       THEN \* the log is opened for append, then self.files[...] raises IndexError
            /\ disk' = OpenAppend(disk, folder_path)
            /\ dialog' = "none"
            /\ raised' = TRUE
            /\ UNCHANGED <<files, folder_path, current_index, image, display_scale,
                           canvas_offset, mode, drawing_points,
                           current_calculated_value, buttons>>
       ELSE /\ Len(DataRows(folder_path)) < MaxRows
            /\ disk' = AppendRow(disk, folder_path,
                           DataRow(files[current_index + 1],
                                   Format6(Val(current_calculated_value))))
            /\ current_index' = NextIndex(current_index)
            /\ LoadImageFromDisk(folder_path, files, NextIndex(current_index))
            /\ UNCHANGED <<files, folder_path>>
    /\ UNCHANGED <<settings, zoom_start, b1_down>>
    /\ Track("other")
    /\ UNCHANGED call

DiscardAndNext ==
    /\ btn_tools = "normal" /\ ~b1_down
    /\ current_index < Len(files) + MaxOverrun
    /\ current_index' = NextIndex(current_index)
    /\ LoadImageFromDisk(folder_path, files, NextIndex(current_index))
    /\ UNCHANGED <<disk, files, folder_path, settings, zoom_start, b1_down>>
    /\ Track("other")
    /\ UNCHANGED call

-----------------------------------------------------------------------------
(* Display and image coordinates *)

\* (c - canvas_offset) / display_scale, in 1/FP pixels
ViewCoord(c, off, scale) == (c - off) * scale[2] * (FP \div scale[1])

\* max(0, min(limit, x)) with limit in pixels
Clamp(x, limit) == Max(0, Min(limit * FP, x))

\* the smallest side, in pixels, apply_zoom accepts
MinZoomSide == 10

\* Image.crop((x1, y1, x2, y2)) of the rectangle r, the box in 1/FP pixels:
\* each coordinate is rounded, the result is relative to r
CropOfCrop(r, x1, y1, x2, y2) ==
    [x |-> r.x + PyRound(x1), y |-> r.y + PyRound(y1),
     w |-> PyRound(x2) - PyRound(x1), h |-> PyRound(y2) - PyRound(y1)]

-----------------------------------------------------------------------------
(* activate_zoom_mode, apply_zoom, zoom_out_step, activate_draw_mode *)

ActivateZoomMode ==
    /\ btn_tools = "normal" /\ ~b1_down
    /\ mode' = "ZOOM_SELECT"
    /\ Quiet
    /\ UNCHANGED <<batch, settings, image, display_scale, canvas_offset, zoom_start,
                   drawing_points, current_calculated_value, buttons, b1_down>>
    /\ Track("other")
    /\ UNCHANGED call

\* the rectangle apply_zoom(start, end) selects in the crop, in 1/FP pixels:
\* both corners converted, clamped to the crop and sorted
ZoomBox(start, end) ==
    LET crop == Val(view_crop_raw)
        off  == Val(canvas_offset)
        ax == Clamp(ViewCoord(start[1], off[1], display_scale), crop.w)
        bx == Clamp(ViewCoord(end[1], off[1], display_scale), crop.w)
        ay == Clamp(ViewCoord(start[2], off[2], display_scale), crop.h)
        by == Clamp(ViewCoord(end[2], off[2], display_scale), crop.h)
    IN  [x1 |-> Min(ax, bx), x2 |-> Max(ax, bx),
         y1 |-> Min(ay, by), y2 |-> Max(ay, by)]

\* apply_zoom returning without zooming only below half the side
ZoomRejectedBelowHalf(b) ==
    2 * (b.x2 - b.x1) < MinZoomSide * FP \/ 2 * (b.y2 - b.y1) < MinZoomSide * FP

\* apply_zoom returns without zooming
ZoomRejected(b) ==
    (b.x2 - b.x1) < MinZoomSide * FP \/ (b.y2 - b.y1) < MinZoomSide * FP

\* apply_zoom(start, end); the caller on_release sets zoom_start and b1_down
ApplyZoom(start, end) ==
    LET crop == Val(view_crop_raw)
        b == ZoomBox(start, end)
    IN  IF ZoomRejected(b)
        THEN /\ mode' = "VIEW"
             /\ UNCHANGED <<image, drawing_points, display_scale, canvas_offset>>
        ELSE /\ zoom_steps < MaxZoomSteps
             /\ zoom_steps' = zoom_steps + 1
             /\ zoom_in_from' = Some([off |-> view_offset, w |-> crop.w, h |-> crop.h,
                                      box |-> b])
             /\ view_offset' = <<view_offset[1] + b.x1, view_offset[2] + b.y1>>
             /\ view_crop_raw' = Some(CropOfCrop(crop, b.x1, b.y1, b.x2, b.y2))
             /\ RenderView(Some(CropOfCrop(crop, b.x1, b.y1, b.x2, b.y2)))
             /\ mode' = "VIEW"
             /\ UNCHANGED original_raw_image

\* the expansion factor of zoom_out_step, 1.5, as a fraction
ZoomOutNum == 3
ZoomOutDen == 2

\* the box zoom_out_step crops from the original image, in pixels
ZoomOutBox ==
    LET crop == Val(view_crop_raw)
        orig == Val(original_raw_image)
        new_w == (crop.w * ZoomOutNum) \div ZoomOutDen
        new_h == (crop.h * ZoomOutNum) \div ZoomOutDen
        center_x == view_offset[1] + FloorDiv(crop.w, 2) * FP
        center_y == view_offset[2] + FloorDiv(crop.h, 2) * FP
        new_x == center_x - FloorDiv(new_w, 2) * FP
        new_y == center_y - FloorDiv(new_h, 2) * FP
    IN  [x1 |-> Max(0, PyInt(new_x)),
         y1 |-> Max(0, PyInt(new_y)),
         x2 |-> Min(orig.w, PyInt(new_x + new_w * FP)),
         y2 |-> Min(orig.h, PyInt(new_y + new_h * FP))]

\* zoom_out_step returns at once: the crop is as large as the image
ZoomOutIdle ==
    /\ Val(view_crop_raw).w >= Val(original_raw_image).w
    /\ Val(view_crop_raw).h >= Val(original_raw_image).h

ZoomOutStep ==
    /\ btn_tools = "normal" /\ ~b1_down
    /\ LET b == ZoomOutBox
           r == [x |-> b.x1, y |-> b.y1, w |-> b.x2 - b.x1, h |-> b.y2 - b.y1]
       IN  IF ZoomOutIdle
           THEN Quiet /\ UNCHANGED <<image, mode, drawing_points, display_scale,
                                     canvas_offset>>
           ELSE /\ zoom_steps < MaxZoomSteps
                /\ zoom_steps' = zoom_steps + 1
                /\ zoom_in_from' = None
                /\ view_offset' = <<b.x1 * FP, b.y1 * FP>>
                /\ UNCHANGED original_raw_image
                /\ IF b.x2 < b.x1 \/ b.y2 < b.y1
                   THEN \* Image.crop raises ValueError
                        /\ dialog' = "none" /\ raised' = TRUE
                        /\ UNCHANGED <<view_crop_raw, mode, drawing_points,
                                       display_scale, canvas_offset>>
                   ELSE IF b.x2 = b.x1 \/ b.y2 = b.y1
                   THEN \* render_view divides by a zero side
                        /\ view_crop_raw' = Some(r)
                        /\ mode' = "VIEW"
                        /\ drawing_points' = <<>>
                        /\ dialog' = "none" /\ raised' = TRUE
                        /\ UNCHANGED <<display_scale, canvas_offset>>
                   ELSE /\ view_crop_raw' = Some(r)
                        /\ mode' = "VIEW"
                        /\ RenderView(Some(r))
                        /\ Quiet
    /\ UNCHANGED <<batch, settings, zoom_start, current_calculated_value, buttons,
                   b1_down>>
    /\ Track("other")
    /\ UNCHANGED call

ActivateDrawMode ==
    /\ btn_tools = "normal" /\ ~b1_down
    /\ mode' = "DRAW"
    /\ RenderView(view_crop_raw)
    /\ Quiet
    /\ UNCHANGED <<batch, settings, image, zoom_start, current_calculated_value,
                   buttons, b1_down>>
    /\ Track("other")
    /\ UNCHANGED call

-----------------------------------------------------------------------------
(* Mouse events on the canvas *)

\* finish_polygon returns at once
FinishRefuses == mode # "DRAW" \/ Len(drawing_points) < 3

\* what Track is told about a call of finish_polygon
FinishEvent ==
    IF ~FinishRefuses THEN "closed"
    ELSE IF mode = "DRAW" THEN "rejected" ELSE "other"

\* finish_polygon: the effect on the button
FinishPolygonBody ==
    btn_calc' = IF FinishRefuses THEN btn_calc ELSE "normal"

\* <Button-1>
OnClick(u) ==
    /\ ~b1_down
    /\ b1_down' = TRUE
    /\ \E p \in u.pts :
        IF mode = "ZOOM_SELECT"
        THEN /\ zoom_start' = Some(p)
             /\ UNCHANGED <<drawing_points, btn_calc>>
        ELSE IF mode = "DRAW"
        THEN /\ Len(drawing_points) < u.maxpts
             /\ drawing_points' = Append(drawing_points, p)
             /\ btn_calc' = "normal"
             /\ UNCHANGED zoom_start
        ELSE UNCHANGED <<zoom_start, drawing_points, btn_calc>>
    /\ Quiet
    /\ UNCHANGED <<batch, settings, image, display_scale, canvas_offset, mode,
                   current_calculated_value, btn_save, btn_tools>>
    /\ Track("other")
    /\ UNCHANGED call

\* <Control-Button-1>: the more specific binding, finish_polygon, runs alone
OnControlClick ==
    /\ ~b1_down
    /\ b1_down' = TRUE
    /\ FinishPolygonBody
    /\ Quiet
    /\ UNCHANGED <<batch, settings, image, display_scale, canvas_offset, zoom_start,
                   mode, drawing_points, current_calculated_value, btn_save,
                   btn_tools>>
    /\ Track(FinishEvent)
    /\ UNCHANGED call

\* <Button-3>
OnRightClick ==
    /\ FinishPolygonBody
    /\ Quiet
    /\ UNCHANGED <<batch, settings, image, display_scale, canvas_offset, zoom_start,
                   mode, drawing_points, current_calculated_value, btn_save,
                   btn_tools, b1_down>>
    /\ Track(FinishEvent)
    /\ UNCHANGED call

\* <B1-Motion>
OnDrag(u) ==
    /\ b1_down
    /\ \E p \in u.pts :
        IF mode = "DRAW" /\ crop_mode = "Freehand"
        THEN /\ Len(drawing_points) < u.maxpts
             /\ drawing_points' = Append(drawing_points, p)
        ELSE UNCHANGED drawing_points
    /\ Quiet
    /\ UNCHANGED <<batch, settings, image, display_scale, canvas_offset, zoom_start,
                   mode, current_calculated_value, buttons, b1_down>>
    /\ Track("other")
    /\ UNCHANGED call

\* <ButtonRelease-1>
OnRelease(u) ==
    /\ b1_down
    /\ b1_down' = FALSE
    /\ \E p \in u.pts :
        IF mode = "ZOOM_SELECT" /\ zoom_start # None
        THEN /\ ApplyZoom(Val(zoom_start), p)
             /\ zoom_start' = None
             /\ UNCHANGED btn_calc
             /\ Track("other")
             /\ UNCHANGED call
        ELSE IF mode = "DRAW" /\ crop_mode = "Freehand"
        THEN /\ FinishPolygonBody
             /\ UNCHANGED <<image, display_scale, canvas_offset, zoom_start, mode,
                            drawing_points>>
             /\ Track(FinishEvent)
             /\ UNCHANGED call
        ELSE /\ UNCHANGED <<image, display_scale, canvas_offset, zoom_start, mode,
                            drawing_points, btn_calc>>
             /\ Track("other")
             /\ UNCHANGED call
    /\ Quiet
    /\ UNCHANGED <<batch, settings, current_calculated_value, btn_save, btn_tools>>

-----------------------------------------------------------------------------
(* calculate_only *)

\* real_points: the canvas points in image coordinates, in 1/FP pixels
RealPoint(c) ==
    LET off == Val(canvas_offset)
    IN  <<ViewCoord(c[1], off[1], display_scale) + view_offset[1],
          ViewCoord(c[2], off[2], display_scale) + view_offset[2]>>

RealPoints == [i \in 1..Len(drawing_points) |-> RealPoint(drawing_points[i])]

SeqMin(sq, k) == CHOOSE m \in {sq[i][k] : i \in 1..Len(sq)} :
                    \A i \in 1..Len(sq) : m <= sq[i][k]
SeqMax(sq, k) == CHOOSE m \in {sq[i][k] : i \in 1..Len(sq)} :
                    \A i \in 1..Len(sq) : m >= sq[i][k]

\* min_x, min_y, max_x, max_y: the box cropped from original_raw_image
RoiBox ==
    [min_x |-> Max(0, PyInt(SeqMin(RealPoints, 1))),
     max_x |-> PyInt(SeqMax(RealPoints, 1)),
     min_y |-> Max(0, PyInt(SeqMin(RealPoints, 2))),
     max_y |-> PyInt(SeqMax(RealPoints, 2))]

\* Image.crop raises ValueError: right < left or lower < upper
RoiCropRaises == RoiBox.max_x < RoiBox.min_x \/ RoiBox.max_y < RoiBox.min_y

\* roi_crop holds no pixel
RoiCropEmpty == RoiBox.max_x = RoiBox.min_x \/ RoiBox.max_y = RoiBox.min_y

\* a later call raises: ImageEnhance.Contrast takes the mean of an image
\* without pixels, ImageDraw.polygon refuses a list of one point
RoiLaterRaises ==
    \/ RoiCropEmpty /\ adj_contrast # 10
    \/ Len(drawing_points) < 2

\* roi_pixels kept whole: zero-valued pixels are measured with the others
all_pixels(h) == h

\* valid_pixels = roi_pixels[roi_pixels > 0]
valid_pixels(h) == [v \in {x \in DOMAIN h : x > 0} |-> h[v]]

\* the thresholds used when the cutoff entry is not a number: by
\* calculate_only, by the overlay of render_view
CalcDefaultCutoff == 128
OverlayDefaultCutoff == 255

\* a cutoff that is the overlay's default whatever default it is given
cutoff_or_overlay_default(text, default) ==
    IF float(text) = None THEN OverlayDefaultCutoff ELSE Val(float(text))

\* try: thresh = float(self.ent_cutoff.get())  except: thresh = default
cutoff_or(text, default) ==
    IF float(text) = None THEN default ELSE Val(float(text))

\* the samples the sessions measure, and calculate_otsu_threshold tabulated
\* over them
SessionSamples ==
    { sample_mixed, sample_half_zero, sample_all_zero, sample_empty,
      valid_pixels(sample_mixed), valid_pixels(sample_half_zero),
      valid_pixels(sample_all_zero) }
OtsuOf == [h \in SessionSamples |-> calculate_otsu_threshold(h)]

\* thresh in calculate_only, for the pixels h
CalcThreshold(h) ==
    IF algo_mode = "Otsu" THEN OtsuOf[h]
    ELSE cutoff_or(ent_cutoff, CalcDefaultCutoff)

\* the pixel values above thresh summed, not counted
sum_above(h, thresh) ==
    SumOver([v \in DOMAIN h |-> h[v] * v], {v \in DOMAIN h : v > thresh})

\* thresh in render_view when the overlay is shown, arr being the pixels of the
\* processed view
OverlayThreshold(arr) ==
    IF algo_mode = "Otsu" THEN OtsuOf[arr]
    ELSE cutoff_or(ent_cutoff, OverlayDefaultCutoff)

\* np.sum(valid_pixels > thresh)
count_above(h, thresh) == SumOver(h, {v \in DOMAIN h : v > thresh})

\* result, for the masked pixels roi
IndexOf(roi) ==
    LET valid == valid_pixels(roi)
    IN  IF Size(valid) = 0 THEN <<0, 1>>
        ELSE Percent(count_above(valid, CalcThreshold(valid)), Size(valid))

\* the results calculate_only can reach, the masked pixels being one of samples
CalcResults(samples) ==
    IF RoiCropEmpty THEN { <<0, 1>> }
    ELSE { IndexOf(roi) : roi \in samples }

\* calculate_only goes past its check of the point list
CalcProceeds == drawing_points # <<>>

CalculateOnly(u) ==
    /\ btn_calc = "normal" /\ ~b1_down
    /\ IF ~CalcProceeds
       THEN /\ dialog' = "Error"
            /\ raised' = FALSE
            /\ UNCHANGED <<current_calculated_value, btn_save>>
       ELSE IF RoiCropRaises \/ RoiLaterRaises
       THEN /\ dialog' = "none"
            /\ raised' = TRUE
            /\ UNCHANGED <<current_calculated_value, btn_save>>
       ELSE /\ \E result \in CalcResults(u.samples) :
                    current_calculated_value' = Some(result)
            /\ btn_save' = "normal"
            /\ Quiet
    /\ UNCHANGED <<batch, settings, image, display_scale, canvas_offset, zoom_start,
                   mode, drawing_points, btn_calc, btn_tools, b1_down>>
    /\ Track("other")
    /\ UNCHANGED call

-----------------------------------------------------------------------------
(* The widgets that hold the settings *)

\* update_adjustments, called by the sliders of the adjustment dialog
UpdateAdjustments(u) ==
    /\ original_raw_image # None /\ ~b1_down
    /\ \E a \in u.adj :
        /\ adj_contrast' = a[1]
        /\ adj_brightness' = a[2]
        /\ adj_noise' = a[3]
    /\ RenderView(view_crop_raw)
    /\ Quiet
    /\ UNCHANGED <<batch, image, show_red_overlay, algo_mode, ent_cutoff, crop_mode,
                   zoom_start, mode, current_calculated_value, buttons, b1_down>>
    /\ Track("settings")
    /\ UNCHANGED call

\* the Show Threshold checkbutton: its variable flips, then render_view
ToggleOverlay ==
    /\ ~b1_down
    /\ show_red_overlay' = ~show_red_overlay
    /\ RenderView(view_crop_raw)
    /\ Quiet
    /\ UNCHANGED <<batch, image, adj_contrast, adj_brightness, adj_noise, algo_mode,
                   ent_cutoff, crop_mode, zoom_start, mode,
                   current_calculated_value, buttons, b1_down>>
    /\ Track("other")
    /\ UNCHANGED call

\* the Threshold Algo combobox and _toggle_cutoff
ToggleCutoff(u) ==
    /\ ~b1_down
    /\ \E a \in u.algos : algo_mode' = a
    /\ IF show_red_overlay
       THEN RenderView(view_crop_raw)
       ELSE UNCHANGED <<drawing_points, display_scale, canvas_offset>>
    /\ Quiet
    /\ UNCHANGED <<batch, image, adj_contrast, adj_brightness, adj_noise,
                   show_red_overlay, ent_cutoff, crop_mode, zoom_start, mode,
                   current_calculated_value, buttons, b1_down>>
    /\ Track("settings")
    /\ UNCHANGED call

\* typing into the cutoff entry, which _toggle_cutoff disables under Otsu
EditCutoff(u) ==
    /\ algo_mode # "Otsu" /\ ~b1_down
    /\ \E t \in u.cutoffs : ent_cutoff' = t
    /\ Quiet
    /\ UNCHANGED <<batch, image, adj_contrast, adj_brightness, adj_noise,
                   show_red_overlay, algo_mode, crop_mode, display_scale,
                   canvas_offset, zoom_start, mode, drawing_points,
                   current_calculated_value, buttons, b1_down>>
    /\ Track("settings")
    /\ UNCHANGED call

\* the Crop Mode combobox
SelectCropMode(u) ==
    /\ ~b1_down
    /\ \E m \in u.crops : crop_mode' = m
    /\ Quiet
    /\ UNCHANGED <<batch, image, adj_contrast, adj_brightness, adj_noise,
                   show_red_overlay, algo_mode, ent_cutoff, display_scale,
                   canvas_offset, zoom_start, mode, drawing_points,
                   current_calculated_value, buttons, b1_down>>
    /\ Track("other")
    /\ UNCHANGED call

-----------------------------------------------------------------------------
(* The process ends and is started again; the disk keeps what was written *)

Restarted ==
    /\ files' = <<>>
    /\ folder_path' = ""
    /\ current_index' = 0
    /\ original_raw_image' = None
    /\ adj_contrast' = 10
    /\ adj_brightness' = 10
    /\ adj_noise' = 0
    /\ show_red_overlay' = FALSE
    /\ algo_mode' = "1-0 Cut off"
    /\ ent_cutoff' = text_2500
    /\ crop_mode' = "Polygon"
    /\ view_crop_raw' = None
    /\ view_offset' = <<0, 0>>
    /\ display_scale' = <<1, 1>>
    /\ canvas_offset' = None
    /\ zoom_start' = None
    /\ mode' = "VIEW"
    /\ drawing_points' = <<>>
    /\ current_calculated_value' = None
    /\ btn_calc' = "disabled"
    /\ btn_save' = "disabled"
    /\ btn_tools' = "disabled"
    /\ b1_down' = FALSE
    /\ dialog' = "none"
    /\ raised' = FALSE
    /\ zoom_steps' = 0
    /\ zoom_in_from' = None
    /\ closed_shape' = None
    /\ close_rejected' = FALSE
    /\ prior_mode' = None
    /\ UNCHANGED call

\* between two events
Crash == folder_path # "" /\ Restarted /\ UNCHANGED disk

\* inside save_and_next, after open(..., "a"): nothing or a part of the row
\* has reached the file
CrashInSave ==
    /\ btn_save = "normal" /\ ~b1_down
    /\ current_calculated_value # None
    /\ current_index < Len(files)
    /\ Len(DataRows(folder_path)) < MaxRows
    /\ \/ disk' = OpenAppend(disk, folder_path)
       \/ disk' = AppendRow(disk, folder_path, TornRow(files[current_index + 1]))
    /\ Restarted

\* inside load_folder, after open(res_path, "w"): nothing or the header line
\* alone has reached the file
CrashInHeader ==
    /\ ~b1_down
    /\ \E path \in Folders :
        /\ FolderFiles(path) # <<>>
        /\ disk[path] = None
        /\ \/ disk' = [disk EXCEPT ![path] = Some(<<>>)]
           \/ disk' = [disk EXCEPT ![path] = Some(<<HeaderLine>>)]
    /\ Restarted

-----------------------------------------------------------------------------
(* A session: any handler, on the inputs u *)
Handlers(u) ==
    \/ LoadFolder(u)
    \/ SaveAndNext
    \/ DiscardAndNext
    \/ CalculateOnly(u)
    \/ ResetCurrentView
    \/ ActivateZoomMode
    \/ ZoomOutStep
    \/ ActivateDrawMode
    \/ OnClick(u)
    \/ OnControlClick
    \/ OnRightClick
    \/ OnDrag(u)
    \/ OnRelease(u)
    \/ UpdateAdjustments(u)
    \/ ToggleOverlay
    \/ ToggleCutoff(u)
    \/ EditCutoff(u)
    \/ SelectCropMode(u)

Next ==
    \/ Handlers(BatchInputs)
    \/ Crash
    \/ CrashInSave
    \/ CrashInHeader

Spec == Init /\ [][Next]_vars

-----------------------------------------------------------------------------
(* A session at the view: the folder F1, the handlers that load a file or    *)
(* change the view, and four canvas points: on the 1000 x 1000 images, shown *)
(* at scale 3/5 from canvas x = 100, they are image points with thirds of a  *)
(* pixel, the corners of the centred rectangle of 2/3 of the image, and the  *)
(* lower right corner of the image.                                          *)

ViewInputs ==
    [folders |-> { "F1" },
     pts     |-> { <<50, 300>>, <<104, 4>>, <<200, 100>>, <<600, 500>>, <<700, 600>> },
     adj     |-> { <<10, 10, 0>> },
     algos   |-> { "1-0 Cut off" },
     cutoffs |-> { text_2500 },
     crops   |-> { "Polygon" },
     samples |-> { sample_mixed },
     maxpts  |-> MaxPoints]

NextView ==
    \/ LoadFolder(ViewInputs)
    \/ DiscardAndNext
    \/ ResetCurrentView
    \/ ActivateZoomMode
    \/ ZoomOutStep
    \/ OnClick(ViewInputs)
    \/ OnDrag(ViewInputs)
    \/ OnRelease(ViewInputs)

SpecView == Init /\ [][NextView]_vars

-----------------------------------------------------------------------------
(* A session at one ROI: the folder F1, the handlers that draw, calculate and *)
(* change the settings, the three corners of a triangle as canvas points,   *)
(* and widgets that are given values other than those they start with.      *)

RoiInputs ==
    [folders |-> { "F1" },
     pts     |-> { <<200, 100>>, <<600, 500>>, <<200, 500>> },
     adj     |-> { <<15, 10, 0>> },
     algos   |-> { "1-0 Cut off", "Otsu" },
     cutoffs |-> { text_2500, text_abc },
     crops   |-> { "Polygon", "Freehand" },
     samples |-> { sample_mixed, sample_all_zero, sample_empty },
     maxpts  |-> MaxPoints]

NextRoi ==
    \/ LoadFolder(RoiInputs)
    \/ ActivateDrawMode
    \/ OnClick(RoiInputs)
    \/ OnControlClick
    \/ OnRightClick
    \/ OnDrag(RoiInputs)
    \/ OnRelease(RoiInputs)
    \/ CalculateOnly(RoiInputs)
    \/ UpdateAdjustments(RoiInputs)
    \/ ToggleOverlay
    \/ ToggleCutoff(RoiInputs)
    \/ EditCutoff(RoiInputs)
    \/ SelectCropMode(RoiInputs)

SpecRoi == Init /\ [][NextRoi]_vars

\* sessions that measure and save: regions drawn by clicks, every sample, a
\* cutoff that is a number and one that is not, both algorithms
CalcInputs ==
    [folders |-> { "F1" },
     pts     |-> { <<200, 100>>, <<600, 500>> },
     adj     |-> { <<10, 10, 0>> },
     algos   |-> { "1-0 Cut off", "Otsu" },
     cutoffs |-> { text_128, text_abc },
     crops   |-> { "Polygon" },
     samples |-> { sample_mixed, sample_half_zero, sample_all_zero, sample_empty },
     maxpts  |-> MaxPoints]

NextCalc ==
    \/ LoadFolder(CalcInputs)
    \/ ActivateDrawMode
    \/ OnClick(CalcInputs)
    \/ OnRelease(CalcInputs)
    \/ OnRightClick
    \/ CalculateOnly(CalcInputs)
    \/ ToggleCutoff(CalcInputs)
    \/ EditCutoff(CalcInputs)
    \/ SaveAndNext

SpecCalc == Init /\ [][NextCalc]_vars

\* sessions that zoom, draw, measure and go through the files: two points, so
\* that zoom rectangles are accepted and regions drawn on zoomed views
TourInputs ==
    [folders |-> { "F1" },
     pts     |-> { <<200, 100>>, <<600, 500>> },
     adj     |-> { <<10, 10, 0>> },
     algos   |-> { "1-0 Cut off" },
     cutoffs |-> { text_2500 },
     crops   |-> { "Polygon" },
     samples |-> { sample_mixed },
     maxpts  |-> MaxPoints]

NextTour ==
    \/ LoadFolder(TourInputs)
    \/ SaveAndNext
    \/ DiscardAndNext
    \/ ResetCurrentView
    \/ ActivateZoomMode
    \/ ZoomOutStep
    \/ ActivateDrawMode
    \/ OnClick(TourInputs)
    \/ OnRelease(TourInputs)
    \/ OnRightClick
    \/ CalculateOnly(TourInputs)

SpecTour == Init /\ [][NextTour]_vars

\* sessions that draw shapes and go on clicking: points left of, inside and
\* right of the image shown, one point more than closes a shape
ShapeInputs ==
    [folders |-> { "F1" },
     pts     |-> { <<50, 300>>, <<200, 100>>, <<750, 300>> },
     adj     |-> { <<10, 10, 0>> },
     algos   |-> { "1-0 Cut off" },
     cutoffs |-> { text_2500 },
     crops   |-> { "Polygon", "Freehand" },
     samples |-> { sample_mixed },
     maxpts  |-> MaxPoints + 1]

NextShape ==
    \/ LoadFolder(ShapeInputs)
    \/ ActivateDrawMode
    \/ SelectCropMode(ShapeInputs)
    \/ OnClick(ShapeInputs)
    \/ OnDrag(ShapeInputs)
    \/ OnRelease(ShapeInputs)
    \/ OnRightClick
    \/ CalculateOnly(ShapeInputs)

SpecShape == Init /\ [][NextShape]_vars

-----------------------------------------------------------------------------
(* calculate_otsu_threshold called on samples of its own *)

\* the largest number of pixels of one value in a sample drawn for the call
MaxCount == 3

\* the values the pixels of those samples take
OtsuValues == <<0, 10, 200, 255>>

\* the samples drawn: every count up to MaxCount of each value, and the two
\* modes of a thousand pixels each
bimodal == (10 :> 1000) @@ (200 :> 1000)
OtsuInputs ==
    { [v \in {OtsuValues[i] : i \in {j \in 1..Len(OtsuValues) : c[j] > 0}} |->
          c[CHOOSE i \in 1..Len(OtsuValues) : OtsuValues[i] = v]]
      : c \in [1..Len(OtsuValues) -> 0..MaxCount] }
    \cup { bimodal }

InitOtsu ==
    /\ InitApp
    /\ call \in { [fn |-> "calculate_otsu_threshold", arg |-> h, ret |-> None]
                  : h \in OtsuInputs }

CallOtsu ==
    /\ call # None
    /\ call.fn = "calculate_otsu_threshold"
    /\ call.ret = None
    /\ call' = [call EXCEPT !.ret = Some(calculate_otsu_threshold(call.arg))]
    /\ UNCHANGED <<disk, files, folder_path, current_index, original_raw_image,
                   adj_contrast, adj_brightness, adj_noise, show_red_overlay,
                   algo_mode, ent_cutoff, crop_mode, view_crop_raw, view_offset,
                   display_scale, canvas_offset, zoom_start, mode,
                   drawing_points, current_calculated_value, btn_calc, btn_save,
                   btn_tools, b1_down, dialog, raised, zoom_steps, zoom_in_from,
                   closed_shape, close_rejected, prior_mode>>

SpecOtsu == InitOtsu /\ [][CallOtsu]_vars

-----------------------------------------------------------------------------
(* The calibration of load_image_from_disk applied to pixels of its own *)

\* the largest number of pixels of an image drawn for the calibration
MaxPixels == 3

\* the values those pixels take
SourceValues == {0, 7, 300, 70000}

\* an image of one value but for a dark and a hot pixel, its 2nd and 98th
\* percentiles equal
flat_with_outliers == [i \in 1..51 |-> IF i = 1 THEN 0 ELSE IF i = 51 THEN 300 ELSE 7]

\* the images drawn: their pixels in reading order
ArrInputs ==
    UNION { [1..n -> SourceValues] : n \in 1..MaxPixels } \cup { flat_with_outliers }

InitCalibrate ==
    /\ InitApp
    /\ call \in { [fn |-> "arr_norm", arg |-> arr, ret |-> None] : arr \in ArrInputs }

CallCalibrate ==
    /\ call # None
    /\ call.fn = "arr_norm"
    /\ call.ret = None
    /\ call' = [call EXCEPT !.ret = Some(arr_norm(call.arg))]
    /\ UNCHANGED <<disk, files, folder_path, current_index, original_raw_image,
                   adj_contrast, adj_brightness, adj_noise, show_red_overlay,
                   algo_mode, ent_cutoff, crop_mode, view_crop_raw, view_offset,
                   display_scale, canvas_offset, zoom_start, mode,
                   drawing_points, current_calculated_value, btn_calc, btn_save,
                   btn_tools, b1_down, dialog, raised, zoom_steps, zoom_in_from,
                   closed_shape, close_rejected, prior_mode>>

SpecCalibrate == InitCalibrate /\ [][CallCalibrate]_vars

-----------------------------------------------------------------------------
(* Properties of the batch workflow and of the result log *)

\* the file the cursor is on
FileActive == current_index < Len(files)
ActiveFile == files[current_index + 1]

\* the step is the restart of the process
IsRestart == folder_path # "" /\ folder_path' = ""

\* the step is a load of a folder the user picked
FolderLoaded == \E p \in Folders : LoadFolderOf(p)

\* the log of the current folder, after the step
RowsAfter(path) == IF disk'[path] = None THEN <<>> ELSE Val(disk'[path])

\* C1: whenever a file is active, Save-and-next advances the cursor by exactly
\* 1 and appends exactly one row to the log, and Discard-and-next advances the
\* cursor by exactly 1 and appends no row.
C1_SaveAndDiscardAdvance ==
    [][ /\ (FileActive /\ SaveAndNext) =>
            /\ current_index' = current_index + 1
            /\ Len(RowsAfter(folder_path)) = Len(Rows(folder_path)) + 1
        /\ (FileActive /\ DiscardAndNext) =>
            /\ current_index' = current_index + 1
            /\ disk' = disk ]_vars

\* C2: the result log is append-only.  Over every step (folder loads and
\* re-loads, calculate, save, discard, a crash between or inside events) a log
\* that exists still exists and what it held is a prefix of what it holds.
C2_LogAppendOnly ==
    [][ \A p \in Folders :
            /\ disk[p] # None => disk'[p] # None
            /\ IsPrefix(Rows(p), RowsAfter(p)) ]_vars

\* C2 is reached: a folder was loaded again after a data row was written to
\* its log
C2_Witness ==
    /\ folder_path = "F1" /\ current_index = 0 /\ original_raw_image # None
    /\ \E i \in 1..Len(Rows("F1")) : Rows("F1")[i].kind = "row"

HeaderCount(rows) == Len(SelectSeq(rows, LAMBDA r : r.kind = "header"))

\* C3: loading a folder writes the header (header line plus rule line) only if
\* the log does not exist at that load; a load of a folder whose log exists
\* leaves the log unchanged; no log ever holds the header twice.
C3_HeaderOnlyIfMissing ==
    [][ /\ FolderLoaded =>
            \A p \in Folders :
              /\ disk[p] # None => disk'[p] = disk[p]
              /\ disk'[p] # disk[p] => disk'[p] = Some(<<HeaderLine, RuleLine>>)
        /\ \A p \in Folders : HeaderCount(RowsAfter(p)) <= 1 ]_vars

\* C3 is reached: a folder is loaded while its log holds the header and a row
C3_Witness ==
    /\ folder_path = "F1" /\ FileActive /\ ActiveFile = name_a
    /\ HeaderCount(Rows("F1")) = 1
    /\ Len(Rows("F1")) = 3
    /\ current_calculated_value = None /\ btn_save = "disabled"

\* the image files of a folder
ImagesOfFolder ==
    [p \in Folders |->
       { listdir(p)[i] : i \in { j \in 1..Len(listdir(p)) : IsImageName(listdir(p)[j]) } }]

ImageNames(path) == ImagesOfFolder[path]

\* f is the first of the names in S that come after g in lexicographic order
LexNext(f, g, S) ==
    /\ f \in S /\ StrLess(g, f)
    /\ \A h \in S : StrLess(g, h) => (h = f \/ StrLess(f, h))

\* C4: files are processed in lexicographic order.  After a load of a folder
\* with image files the active file is the lexicographically first of them;
\* after a Save the log has gained one row naming the file that was active and
\* the active file, if any is left, is the next one in lexicographic order.
C4_LexicographicOrder ==
    [][ /\ (FolderLoaded /\ ImageNames(folder_path') # {}) =>
            /\ current_index' = 0
            /\ files'[1] \in ImageNames(folder_path')
            /\ \A g \in ImageNames(folder_path') : ~StrLess(g, files'[1])
        /\ (SaveAndNext /\ current_index' # current_index) =>
            /\ RowsAfter(folder_path) =
                 Rows(folder_path) \o
                   <<DataRow(ActiveFile, Format6(Val(current_calculated_value)))>>
            /\ current_index' < Len(files') =>
                 LexNext(files'[current_index' + 1], ActiveFile, ImageNames(folder_path')) ]_vars

\* C4 is reached: a.tif was saved and b.tif is the active file
C4_Witness ==
    /\ folder_path = "F1" /\ FileActive /\ ActiveFile = name_b
    /\ \E i \in 1..Len(Rows("F1")) :
         Rows("F1")[i].kind = "row" /\ Rows("F1")[i].file = name_a

\* C5, as claimed: over any sequence of operations of a running session the
\* cursor never decreases.
C5_CursorNeverDecreases ==
    [][ ~IsRestart => current_index' >= current_index ]_vars

NoDuplicates(l) == \A i, j \in 1..Len(l) : l[i] = l[j] => i = j

\* C5, amended: between two loads of a folder the file list stays as it is, holds
\* no name twice, and the cursor never decreases, so that a file saved or
\* discarded is not active again; a load of a folder starts the list anew with
\* the cursor at 0 (or, the folder holding no image, leaves the cursor).
C5_CursorMonotoneBetweenLoads ==
    [][ /\ (~IsRestart /\ ~FolderLoaded) =>
            /\ current_index' >= current_index
            /\ files' = files
        /\ FolderLoaded => current_index' \in {0, current_index}
        /\ NoDuplicates(files') ]_vars

\* C5 is reached: two files were saved or discarded and the cursor is on the third
C5_Witness == folder_path = "F1" /\ current_index = 2 /\ FileActive

-----------------------------------------------------------------------------
(* Properties of the view *)

\* the crop window the handlers keep: its origin view_offset and the size of
\* view_crop_raw, in 1/FP pixels
WindowLeft == view_offset[1]
WindowTop == view_offset[2]
WindowRight == view_offset[1] + Val(view_crop_raw).w * FP
WindowBottom == view_offset[2] + Val(view_crop_raw).h * FP

\* C6: in every reachable state the crop window lies inside the calibrated
\* image: 0 <= origin and origin + size <= image size on both axes.
C6_WindowInsideImage ==
    view_crop_raw # None =>
        /\ 0 <= WindowLeft /\ 0 <= WindowTop
        /\ WindowRight <= Val(original_raw_image).w * FP
        /\ WindowBottom <= Val(original_raw_image).h * FP

\* the displayed image has even sides: centred on the canvas, its corner is at
\* canvas_offset exactly
EvenPlacement ==
    /\ NewSize(Val(view_crop_raw))[1] % 2 = 0
    /\ NewSize(Val(view_crop_raw))[2] % 2 = 0

\* e, in 1/FP image pixels, is at most one pixel of the image or of the display
WithinOnePixel(e) ==
    \/ Abs(e) <= FP
    \/ Abs(e) * display_scale[1] <= FP * display_scale[2]

\* C7: after any sequence of zoom operations a point of the crop, mapped to
\* the display and back with the conversion calculate_only makes, is within
\* one pixel of itself.  The point taken is the first pixel of the crop, which
\* is displayed at canvas_offset.
C7_RoundTripWithinOnePixel ==
    (view_crop_raw # None /\ canvas_offset # None /\ EvenPlacement) =>
        LET back == RealPoint(Val(canvas_offset))
        IN  /\ WithinOnePixel(back[1] - Val(view_crop_raw).x * FP)
            /\ WithinOnePixel(back[2] - Val(view_crop_raw).y * FP)

\* the zoom-in that z records matches a zoom-out: its rectangle, enlarged 1.5
\* times about its centre, covers the crop it was selected in
Matching(z) ==
    /\ 5 * z.box.x1 - z.box.x2 <= 0
    /\ 5 * z.box.x2 - z.box.x1 >= 4 * z.w * FP
    /\ 5 * z.box.y1 - z.box.y2 <= 0
    /\ 5 * z.box.y2 - z.box.y1 >= 4 * z.h * FP

\* C8: a zoom-out made after a matching zoom-in yields a crop window that
\* covers the window the zoom-in started from, except at an edge that is at
\* the image boundary.
C8_ZoomOutCoversOriginal ==
    [][ (zoom_in_from # None /\ Matching(Val(zoom_in_from)) /\ ZoomOutStep) =>
          LET z == Val(zoom_in_from)
              img == Val(original_raw_image)
          IN  /\ WindowLeft' <= z.off[1] \/ WindowLeft' = 0
              /\ WindowTop' <= z.off[2] \/ WindowTop' = 0
              /\ WindowRight' >= z.off[1] + z.w * FP \/ WindowRight' = img.w * FP
              /\ WindowBottom' >= z.off[2] + z.h * FP \/ WindowBottom' = img.h * FP ]_vars

-----------------------------------------------------------------------------
(* Properties of the ROI *)

\* C9: once an ROI has been finalized for the active file (here: a triangle),
\* Calculate computes an index from it, also after the contrast, brightness
\* or blur or the threshold configuration were changed: it does not ask for
\* the ROI to be drawn.
C9_CalculateAfterSettingsChange ==
    [][ ( /\ closed_shape # None
          /\ NoDuplicates(Val(closed_shape))
          /\ CalculateOnly(RoiInputs) ) => dialog' # "Error" ]_vars

\* C10: when the closing gesture was made on a list of exactly 2 points (here:
\* two points that span a box with pixels in it), no shape is recorded and a Calculate that follows
\* shows the ROI-missing warning and leaves the calculated value and the Save
\* button as they are.
C10_TwoPointsThenCalculateWarns ==
    [][ ( /\ close_rejected
          /\ Len(drawing_points) = 2
          /\ NoDuplicates(drawing_points)
          /\ ~RoiCropEmpty
          /\ CalculateOnly(RoiInputs) ) =>
          /\ dialog' = "Error"
          /\ UNCHANGED <<current_calculated_value, btn_save>> ]_vars

\* calculate_only measures: the point list is not empty and no call raises
Measures == CalcProceeds /\ ~RoiCropRaises /\ ~RoiLaterRaises

\* calculate_only measures the pixels roi, a sample of the measuring sessions
CalculateOn(roi) == CalculateOnly([CalcInputs EXCEPT !.samples = {roi}])

\* v is a number of percent: a fraction with a denominator, from 0 to 100
IsPercent(v) == v[2] > 0 /\ 0 <= v[1] /\ v[1] <= 100 * v[2]

\* the rows of the log of path that carry an index
IndexRows(path) == SelectSeq(Rows(path), LAMBDA r : r.kind = "row")

\* C11: every index produced by Calculate, and every index written to the log,
\* is a number in [0, 100] (the log holds it in millionths), never NaN.
C11_IndexWithinPercentRange ==
    /\ current_calculated_value # None => IsPercent(Val(current_calculated_value))
    /\ \A path \in Folders : \A i \in 1..Len(IndexRows(path)) :
           IndexRows(path)[i].index \in 0..100000000

C11_Witness ==
    /\ current_calculated_value = Some(<<100, 1>>)
    /\ \E i \in 1..Len(IndexRows("F1")) : IndexRows("F1")[i].index = 50000000

\* C12: when every pixel the mask of the region selects is 0, or the mask
\* selects no pixel, Calculate yields the index 0.0 and raises no exception
\* (regions of three points and more, not all of them the same point).
C12_NoSignalGivesZero ==
    [][ \A roi \in {sample_all_zero, sample_empty} :
            ( /\ btn_calc = "normal" /\ UNCHANGED drawing_points
              /\ Len(drawing_points) >= 3
              /\ \E i \in 1..Len(drawing_points) : drawing_points[i] # drawing_points[1]
              /\ CalculateOnly([RoiInputs EXCEPT !.samples = {roi}]) )
            => /\ ~raised'
               /\ current_calculated_value' = Some(<<0, 1>>)
      ]_vars

\* the pixels of roi that are not 0, and those of them above thresh
NonZero(roi) == SumOver(roi, DOMAIN roi \ {0})
NonZeroAbove(roi, thresh) == SumOver(roi, {v \in DOMAIN roi : v > 0 /\ v > thresh})

\* C13: zero-valued masked pixels are left out of numerator and denominator:
\* with a fixed numeric cutoff the index is 100 * count(v > cutoff) / count(v)
\* over the masked pixels v > 0, and 50 pixels of 0 with 50 of 255 under the
\* cutoff 128 give exactly 100.
C13_ZeroPixelsExcluded ==
    [][ /\ \A roi \in CalcInputs.samples :
              ( /\ algo_mode = "1-0 Cut off" /\ float(ent_cutoff) # None
                /\ NonZero(roi) > 0
                /\ btn_calc = "normal" /\ UNCHANGED drawing_points
                /\ Measures /\ ~RoiCropEmpty
                /\ CalculateOn(roi) )
              => /\ current_calculated_value' # None
                 /\ Val(current_calculated_value')[1] * NonZero(roi)
                      = 100 * NonZeroAbove(roi, Val(float(ent_cutoff)))
                          * Val(current_calculated_value')[2]
        /\ ( /\ algo_mode = "1-0 Cut off" /\ ent_cutoff = text_128
             /\ btn_calc = "normal" /\ UNCHANGED drawing_points
             /\ Measures /\ ~RoiCropEmpty
             /\ CalculateOn(sample_half_zero) )
           => current_calculated_value' = Some(<<100, 1>>) ]_vars

C13_Witness ==
    /\ Measures /\ ~RoiCropEmpty
    /\ algo_mode = "1-0 Cut off" /\ ent_cutoff = text_128
    /\ current_calculated_value = Some(<<100, 1>>)
    /\ btn_save = "normal"

\* the calibration has returned the pixels of an image
Calibration == call # None /\ call.fn = "arr_norm" /\ call.ret # None

\* the 2nd and the 98th percentile of the image calibrated
P2 == percentile(call.arg, 2)
P98 == percentile(call.arg, 98)

\* C16: every calibrated pixel lies in [0, 255]; the mapping is monotonic, a
\* source pixel a <= b giving calibrated(a) <= calibrated(b); and when the 2nd
\* and 98th percentiles are equal the range is 1: the pixels at the percentile
\* and below become 0, those above it 255.
C16_CalibrationBoundedMonotonic ==
    Calibration =>
        LET arr == call.arg
            out == Val(call.ret)
        IN  /\ Len(out) = Len(arr)
            /\ \A i \in 1..Len(arr) : out[i] \in 0..255
            /\ \A i, j \in 1..Len(arr) : arr[i] <= arr[j] => out[i] <= out[j]
            /\ P2 = P98 =>
                  \A i \in 1..Len(arr) :
                      out[i] = IF FLess(P2, <<arr[i], 1>>) THEN 255 ELSE 0
            /\ FLess(P2, P98) =>
                  \A i \in 1..Len(arr) :
                      /\ ~FLess(P2, <<arr[i], 1>>) => out[i] = 0
                      /\ ~FLess(<<arr[i], 1>>, P98) => out[i] = 255

\* an image whose percentiles are equal though a pixel lies above them
C16_Witness ==
    /\ Calibration
    /\ P2 = P98
    /\ \E i \in 1..Len(call.arg) : Val(call.ret)[i] = 255

\* the handlers rest on the file at the cursor, loaded: its calibrated image
\* is the one held, and no exception went up
OnLoadedFile ==
    /\ current_index' < Len(files')
    /\ Readable(folder_path', files'[current_index' + 1])
    /\ original_raw_image' = Some(Calibrated(folder_path', files'[current_index' + 1]))
    /\ ~raised'

\* C17: when the file at the cursor cannot be loaded the failure is caught
\* and shown to the user, and the session goes on: after every step that
\* moves the cursor or builds the file list, either the file at the cursor is
\* loaded, or the batch has ended, nothing having been raised.
C17_LoadFailureCaughtAndSkipped ==
    [][ (current_index' # current_index \/ files' # files)
        => \/ OnLoadedFile
           \/ current_index' >= Len(files') /\ ~raised'
      ]_vars

\* the rectangle from the press at zoom_start to a release at p, clamped to
\* the crop shown, is less than 10 pixels wide or high
TooSmall(p) ==
    LET b == ZoomBox(Val(zoom_start), p)
    IN  (b.x2 - b.x1) < 10 * FP \/ (b.y2 - b.y1) < 10 * FP

\* the press at zoom_start or the release at p lies left of the image shown
LeftOfImage(p) ==
    Val(zoom_start)[1] < Val(canvas_offset)[1] \/ p[1] < Val(canvas_offset)[1]

\* C20: a zoom-in whose rectangle, converted to image coordinates and clamped
\* to the current crop, is less than 10 pixels wide or high leaves the view as
\* it is (crop origin, crop size, displayed image) and ends zoom-select mode.
C20_SmallZoomIsNoOp ==
    [][ \A p \in ViewInputs.pts :
            ( /\ mode = "ZOOM_SELECT" /\ zoom_start # None /\ b1_down
              /\ TooSmall(p)
              /\ OnRelease([ViewInputs EXCEPT !.pts = {p}]) )
            => /\ UNCHANGED <<original_raw_image, view_crop_raw, view_offset,
                              display_scale, canvas_offset, zoom_steps>>
               /\ mode' = "VIEW"
               /\ zoom_start' = None
               /\ ~raised'
      ]_vars

\* a zoom-in rejected because clamping made it narrow, on a view zoomed before
C20_Witness ==
    /\ mode = "ZOOM_SELECT" /\ zoom_start # None /\ b1_down
    /\ zoom_steps > 0
    /\ \E p \in ViewInputs.pts :
          /\ TooSmall(p) /\ LeftOfImage(p)
          /\ Abs(Val(zoom_start)[1] - p[1]) > 10 /\ Abs(Val(zoom_start)[2] - p[2]) > 10

\* C18: a cutoff entry that is not a number never aborts a measurement:
\* Calculate puts the default threshold 128 in its place, raises nothing and
\* produces the index of the sample under that threshold.
C18_NonNumericCutoffMeasured ==
    [][ \A roi \in CalcInputs.samples :
            ( /\ algo_mode = "1-0 Cut off" /\ float(ent_cutoff) = None
              /\ btn_calc = "normal" /\ UNCHANGED drawing_points
              /\ Measures /\ ~RoiCropEmpty
              /\ CalculateOn(roi) )
            => /\ ~raised' /\ dialog' = "none"
               /\ btn_save' = "normal"
               /\ current_calculated_value' # None
               /\ IsPercent(Val(current_calculated_value'))
               /\ Val(current_calculated_value')[1] * Max(1, NonZero(roi))
                    = 100 * NonZeroAbove(roi, 128) * Val(current_calculated_value')[2]
      ]_vars

C18_Witness ==
    /\ Measures /\ ~RoiCropEmpty
    /\ algo_mode = "1-0 Cut off" /\ ent_cutoff = text_abc
    /\ current_calculated_value = Some(<<50, 1>>)

\* C19: for the same settings the threshold of the overlay is the threshold of
\* Calculate, whether the cutoff is a number, is not a number, or the
\* algorithm is Otsu: here with the view showing exactly the pixels measured.
C19_OverlayThresholdIsCalcThreshold ==
    ( /\ show_red_overlay /\ view_crop_raw # None
      /\ Measures /\ ~RoiCropEmpty
      /\ Len(drawing_points) >= 3 /\ NoDuplicates(drawing_points) )
    => \A roi \in RoiInputs.samples :
           Size(valid_pixels(roi)) > 0
           => OverlayThreshold(roi) = CalcThreshold(valid_pixels(roi))

\* calculate_otsu_threshold has returned from a call on h
OtsuReturned(h) ==
    /\ call # None
    /\ call.fn = "calculate_otsu_threshold"
    /\ call.arg = h
    /\ call.ret # None

\* the sample holds pixels, all of one value
SingleValued(h) == Cardinality(DOMAIN h) = 1

\* C14 as stated: Otsu on the bimodal sample of 1000 values equal to 10 and
\* 1000 values equal to 200 returns a threshold t with 10 < t < 200.
C14_OtsuStrictlyBetweenModes ==
    OtsuReturned(bimodal) => (10 < Val(call.ret) /\ Val(call.ret) < 200)

\* C14 as the code has it: on that bimodal sample Otsu returns the lower mode
\* itself, t = 10, the first of the equally good thresholds 10..199; so
\* 10 <= t < 200, and "pixel > t" still separates the two modes.
C14_OtsuReturnsLowerMode ==
    OtsuReturned(bimodal) => Val(call.ret) = 10

C14_Witness == OtsuReturned(bimodal)

\* C15: Otsu returns 0 for every degenerate input: the empty sample and any
\* sample whose pixels all have the same value.
C15_OtsuDegenerateIsZero ==
    \A h \in OtsuInputs :
        (OtsuReturned(h) /\ (Size(h) = 0 \/ SingleValued(h))) => Val(call.ret) = 0

C15_Witness ==
    \E h \in OtsuInputs : OtsuReturned(h) /\ SingleValued(h) /\ 255 \in DOMAIN h

\* the step is the release that ends a zoom rectangle apply_zoom rejects
RejectedZoom ==
    /\ mode = "ZOOM_SELECT" /\ zoom_start # None /\ b1_down
    /\ \E p \in BatchInputs.pts :
          /\ ZoomRejected(ZoomBox(Val(zoom_start), p))
          /\ OnRelease([BatchInputs EXCEPT !.pts = {p}])

\* the step is a closing gesture finish_polygon refuses for want of points
RejectedClosing ==
    /\ mode = "DRAW" /\ FinishRefuses
    /\ OnRightClick \/ OnControlClick

\* C21: after a degenerate selection (a rejected zoom rectangle, a closing
\* gesture with too few points) the mode is the one that was active before the
\* rejected interaction began: a zoom started from draw mode and rejected
\* returns to draw mode.
C21_RejectedSelectionRestoresMode ==
    [][ /\ RejectedZoom => mode' = Val(prior_mode)
        /\ RejectedClosing => mode' = mode
      ]_vars

\* C22: switching the mode abandons the ROI points in progress: entering
\* zoom-select mode, or draw mode again, from draw mode with a point list that
\* is not empty and not finalized leaves the point list empty, so that a
\* Calculate then gives the ROI-missing warning.
C22_ModeSwitchAbandonsPoints ==
    [][ ( /\ mode = "DRAW" /\ drawing_points # <<>> /\ closed_shape = None
          /\ ActivateZoomMode \/ ActivateDrawMode )
        => drawing_points' = <<>>
      ]_vars

\* the step is a handler of the batch that loaded the file at the new cursor:
\* a folder picked, Save-and-next or Discard-and-next, the file readable
SuccessfulLoad ==
    /\ current_index' < Len(files')
    /\ Readable(folder_path', files'[current_index' + 1])
    /\ \/ FolderLoaded
       \/ current_index' = current_index + 1 /\ (SaveAndNext \/ DiscardAndNext)

\* the calibrated image of the file at the new cursor
LoadedImage == Calibrated(folder_path', files'[current_index' + 1])

\* C23: right after every successful load of a file (first load, Save-and-
\* next, Discard-and-next) the crop is the whole calibrated image with origin
\* (0, 0), the ROI point list is empty, no calculated value is held, the mode
\* is VIEW and Save and Calculate are disabled; Calculate becomes available
\* only by drawing, Save only by a Calculate that produced a value.
C23_LoadResetsViewAndMeasurement ==
    [][ /\ SuccessfulLoad
           => /\ original_raw_image' = Some(LoadedImage)
              /\ view_crop_raw' = Some(FullCrop(LoadedImage))
              /\ view_offset' = <<0, 0>>
              /\ drawing_points' = <<>>
              /\ current_calculated_value' = None
              /\ mode' = "VIEW"
              /\ btn_save' = "disabled" /\ btn_calc' = "disabled"
        /\ (btn_calc = "disabled" /\ btn_calc' = "normal")
           => mode = "DRAW" /\ drawing_points' # <<>>
        /\ (btn_save = "disabled" /\ btn_save' = "normal")
           => CalculateOnly(TourInputs) /\ current_calculated_value' # None
      ]_vars

\* c.PNG loaded by Save-and-next or Discard-and-next after a row was saved
C23_Witness ==
    /\ current_index = 2
    /\ original_raw_image = Some(Calibrated("F1", name_c))
    /\ view_crop_raw = Some(FullCrop(Calibrated("F1", name_c)))
    /\ btn_save = "disabled" /\ btn_calc = "disabled"
    /\ DataRows("F1") # <<>>

\* C24: for every ROI point sequence, points outside the image shown
\* included, the box cropped from the calibrated image is clamped at both
\* ends: 0 <= min_x <= max_x <= width and 0 <= min_y <= max_y <= height
\* (sequences of three different points and more).
C24_RoiBoxClampedBothEnds ==
    ( /\ btn_calc = "normal" /\ original_raw_image # None
      /\ Len(drawing_points) >= 3 /\ NoDuplicates(drawing_points) )
    => /\ 0 <= RoiBox.min_x /\ RoiBox.min_x <= RoiBox.max_x
       /\ RoiBox.max_x <= Val(original_raw_image).w
       /\ 0 <= RoiBox.min_y /\ RoiBox.min_y <= RoiBox.max_y
       /\ RoiBox.max_y <= Val(original_raw_image).h

\* C28: a finalized ROI is frozen: once the closing gesture (polygon) or the
\* release (freehand) has finalized a shape, clicks and drags leave the point
\* list as it is until draw mode is entered again.
C28_FinalizedRoiFrozen ==
    [][ ( /\ closed_shape # None /\ mode = "DRAW"
          /\ NoDuplicates(drawing_points)
          /\ OnClick(ShapeInputs) \/ OnDrag(ShapeInputs) )
        => UNCHANGED drawing_points
      ]_vars

\* how far view_offset is from the origin, in the calibrated image, of the
\* pixels view_crop_raw holds: per axis, in 1/FP pixels
OriginDrift ==
    <<Abs(view_offset[1] - Val(view_crop_raw).x * FP),
      Abs(view_offset[2] - Val(view_crop_raw).y * FP)>>

\* C25: after any number of successive zoom-in steps view_offset, the origin
\* the conversion of canvas points uses, is within one pixel of the true
\* origin of the pixels displayed; the distance does not grow with the steps.
C25_OriginWithinOnePixel ==
    view_crop_raw # None => (OriginDrift[1] <= FP /\ OriginDrift[2] <= FP)

\* C26: once the queue is exhausted the controller is complete: the cursor
\* equals the number of files, never more, and no further Save, Discard or
\* Calculate changes the cursor or the log.
C26_CompleteIsFinal ==
    [][ ( /\ files # <<>> /\ current_index >= Len(files)
          /\ SaveAndNext \/ DiscardAndNext \/ CalculateOnly(BatchInputs) )
        => /\ current_index = Len(files)
           /\ UNCHANGED <<current_index, disk>>
      ]_vars

\* the step is a Save-and-next that appends a data row
RowSaved ==
    /\ current_calculated_value # None /\ current_index < Len(files)
    /\ SaveAndNext
    /\ Len(RowsAfter(folder_path)) = Len(Rows(folder_path)) + 1

\* C27: every data row (f, v) is appended by Save while f is the active file,
\* and v was calculated on the calibrated image of f itself: when the row is
\* written the image held is that of the file the row names (the value was
\* calculated on the image held, every load clearing the value first).
C27_RowMeasuredOnItsOwnFile ==
    [][ (RowSaved /\ drawing_points # <<>> /\ ~RoiCropEmpty)
        => /\ RowsAfter(folder_path)[Len(RowsAfter(folder_path))].file
                = files[current_index + 1]
           /\ original_raw_image # None
           /\ Val(original_raw_image).path = folder_path
           /\ Val(original_raw_image).name = files[current_index + 1]
      ]_vars

\* the view transform calculate_only converts canvas points with
transform == <<view_offset, display_scale, canvas_offset>>

\* C29: whenever the ROI point list is not empty the view transform (crop
\* origin, display scale, display offset) is the one every point of the list
\* was captured under: a step that changes the transform leaves the list
\* empty, and a step that adds a point leaves the transform as it is.
C29_PointsKeepTheirTransform ==
    [][ /\ transform' # transform => drawing_points' = <<>>
        /\ Len(drawing_points') > Len(drawing_points) => transform' = transform
      ]_vars

\* points drawn on a view that was zoomed, its origin moved
C29_Witness ==
    /\ zoom_steps > 0 /\ view_offset # <<0, 0>>
    /\ Len(drawing_points) >= 2

\* every log file on the disk d begins with the header and the rule line
HeadersFirst(d) ==
    \A path \in Folders :
        d[path] # None =>
            /\ Len(Val(d[path])) >= 2
            /\ Val(d[path])[1] = HeaderLine
            /\ Val(d[path])[2] = RuleLine

\* the step ends the process in the middle of a handler, or kills it
ProcessEnds == Crash \/ CrashInSave \/ CrashInHeader

\* C30: whenever the application creates a log file or appends a row to one,
\* the file begins with the header and the rule line: a handler that runs to
\* its end, on a disk whose logs all have their header, leaves no log without
\* it, folders without image files included.
C30_NoLogWithoutHeader ==
    [][ (HeadersFirst(disk) /\ disk' # disk /\ ~ProcessEnds) => HeadersFirst(disk')
      ]_vars

=============================================================================
